---- MODULE Spec2Model ----
(***************************************************************************)
(* DeviceManager of inputs/manager.py: construction (__init__ and          *)
(* _post_init), the Unix backend (_find_devices, _find_by,                 *)
(* _parse_device_path), the Windows backend (_find_xinput,                 *)
(* _find_devices_win, _detect_gamepads), _update_all_devices and           *)
(* __getitem__ and __iter__; get_gamepad of inputs/utils.py.                *)
(*                                                                         *)
(* A Python string is the sequence of its maximal '-'-free runs with the   *)
(* separators kept as elements of their own: "a-b-" is <<"a","-","b","-">>.*)
(* Two strings are equal iff their sequences are, and rsplit("-", 1) works *)
(* on the sequence as it does on the characters.                           *)
(***************************************************************************)
EXTENDS Integers, Sequences, FiniteSets, TLC

VARIABLES
    WIN,            \* libi.system.WIN: the host platform, fixed per process
    link,           \* the filesystem: device_path -> symlink target or NoLink
    loadable,       \* the names getattr(ctypes.windll, name) can load
    pc,             \* where construction stands
    _raw,           \* self._raw: realpaths seen
    gamepads,       \* self.gamepads
    other_devices,  \* self.other_devices
    all_devices,    \* self.all_devices
    xinput,         \* self.xinput
    xinput_dll,     \* self.xinput_dll
    key,            \* _find_by: key
    by_path,        \* _find_by: by_path, the list glob.glob returned
    pos,            \* _find_by: number of elements of by_path the loop consumed
    dll_idx,        \* _find_xinput: position of the for loop in XINPUT_DLL_NAMES
    device_number,  \* _detect_gamepads: device_number
    polled,         \* the XInputGetState calls, in order: <<slot, status code>>
    warnings,       \* the warnings warn() emitted, in order
    error,          \* the exception that left __init__, or None
    result,         \* outcome of the last __getitem__ call
    gp_result,      \* utils.get_gamepad: outcome of the last call
    it              \* the iterator the last __iter__ call returned

vars == <<WIN, link, loadable, pc, _raw, gamepads, other_devices, all_devices,
          xinput, xinput_dll, key, by_path, pos, dll_idx, device_number,
          polled, warnings, error, result, gp_result, it>>

None == "None"
NoLink == "NoLink"
\* No exception has left __init__; no __getitem__ call has been made.
NoError == <<>>
NoCall == <<>>
\* __iter__ has not been called: no iterator exists.
NoIterator ==
    [active |-> FALSE, pos |-> 0, yielded |-> <<>>, done |-> FALSE,
     restarted |-> FALSE]

\* ---------------------------------------------------------------- bounds
\* Longest list one glob.glob call returns.
MaxGlob == 2

\* ------------------------------------------------------------- constants
\* constants.py (not part of the sources at hand): the library names tried,
\* in order, and the two status codes the poll loop recognises.
XINPUT_DLL_NAMES == <<"XInput1_4.dll", "XInput9_1_0.dll", "XInput1_3.dll">>
XINPUT_ERROR_SUCCESS == 0
XINPUT_ERROR_DEVICE_NOT_CONNECTED == 1167

\* range(4) of _detect_gamepads
NumSlots == 4

\* ---------------------------------------------------------- environment
\* Device paths a glob may return.  Real matches of /dev/input/by-*/*-event-*
\* always hold a '-'; a replaced glob (tests) may return any string.
ById_joystick   == <<"/dev/input/by", "-", "id/usb", "-", "pad", "-", "event", "-", "joystick">>
ByPath_joystick == <<"/dev/input/by", "-", "path/pci", "-", "event", "-", "joystick">>
ById_kbd        == <<"/dev/input/by", "-", "id/usb", "-", "kbd", "-", "event", "-", "kbd">>
ById_trailing   == <<"/dev/input/by", "-", "id/usb", "-", "event", "-">>
NoDash_joystick == <<"joystick">>

DevicePaths == {ById_joystick, ByPath_joystick, ById_kbd, ById_trailing, NoDash_joystick}

\* The device node a symlink resolves to.
EventNode == <<"/dev/input/event0">>

\* Status codes XInputGetState may return: the two recognised ones and two
\* unknown ones.
PollCodes == {XINPUT_ERROR_SUCCESS, XINPUT_ERROR_DEVICE_NOT_CONNECTED, 5, 999}

\* Every sequence over S of length <= n.
SeqsUpTo(S, n) == UNION {[1..k -> S] : k \in 0..n}

Range(s) == {s[i] : i \in 1..Len(s)}

\* ------------------------------------------------------- pure functions
\* Variant of rsplit: str.split(sep, 1), which splits at the first occurrence.
rsplit_First(s, sep) ==
    LET idxs == {i \in 1..Len(s) : s[i] = sep}
    IN  IF idxs = {} THEN <<s>>
        ELSE LET i == CHOOSE j \in idxs : \A k \in idxs : j <= k
             IN  <<SubSeq(s, 1, i - 1), SubSeq(s, i + 1, Len(s))>>

\* str.rsplit(sep, 1): split at the last occurrence of sep; a string without
\* sep comes back whole, as a one-element list.
rsplit(s, sep) ==
    LET idxs == {i \in 1..Len(s) : s[i] = sep}
    IN  IF idxs = {} THEN <<s>>
        ELSE LET i == CHOOSE j \in idxs : \A k \in idxs : k <= j
             IN  <<SubSeq(s, 1, i - 1), SubSeq(s, i + 1, Len(s))>>

\* os.path.realpath: a symlink resolves to its target, any other path (also
\* one that does not exist) to itself.
realpath(device_path) ==
    IF device_path \in DOMAIN link /\ link[device_path] # NoLink
    THEN link[device_path]
    ELSE device_path

\* GamePad(self, device_path, char_path_override)
GamePad(device_path, char_path_override) ==
    [cls |-> "GamePad", device_path |-> device_path,
     char_path_override |-> char_path_override]

\* OtherDevice(self, device_path, char_path_override)
OtherDevice(device_path, char_path_override) ==
    [cls |-> "OtherDevice", device_path |-> device_path,
     char_path_override |-> char_path_override]

\* The identifier _detect_gamepads builds for a slot.
SynthesizedPath(n) ==
    <<"/dev/input/by_id/usb", "-",
      "Microsoft_Corporation_Controller_" \o ToString(n), "-",
      "event", "-", "joystick">>

\* ------------------------------------------------------------------ Init
\* The state __init__ leaves before it calls _post_init.
Init ==
    /\ WIN \in BOOLEAN
    /\ link \in [DevicePaths -> {NoLink, EventNode}]
    /\ loadable \in SUBSET Range(XINPUT_DLL_NAMES)
    /\ WIN => \A p \in DevicePaths : link[p] = NoLink
    /\ ~WIN => loadable = {}
    /\ pc = "post_init"
    /\ _raw = <<>>
    /\ gamepads = <<>>
    /\ other_devices = <<>>
    /\ all_devices = <<>>
    /\ xinput = None
    /\ xinput_dll = None
    /\ key = None
    /\ by_path = <<>>
    /\ pos = 0
    /\ dll_idx = 0
    /\ device_number = 0
    /\ polled = <<>>
    /\ warnings = <<>>
    /\ error = NoError
    /\ result = NoCall
    /\ gp_result = NoCall
    /\ it = NoIterator

env == <<WIN, link, loadable>>
registry == <<_raw, gamepads, other_devices>>
unixLocals == <<key, by_path, pos>>
winState == <<xinput, xinput_dll, dll_idx, device_number, polled>>

\* --------------------------------------------------------------- actions
\* Variant of _post_init with the platform test inverted ("if not WIN").
PostInit_Inverted ==
    /\ pc = "post_init"
    /\ IF ~WIN
       THEN /\ pc' = "find_xinput"
            /\ dll_idx' = 1
            /\ UNCHANGED key
       ELSE /\ pc' = "find_by_glob"
            /\ key' = "id"
            /\ UNCHANGED dll_idx
    /\ UNCHANGED <<env, registry, all_devices, xinput, xinput_dll, by_path, pos,
                   device_number, polled, warnings, error, result, gp_result, it>>

\* _post_init: dispatch on the platform.
PostInit ==
    /\ pc = "post_init"
    /\ IF WIN
       THEN /\ pc' = "find_xinput"
            /\ dll_idx' = 1
            /\ UNCHANGED key
       ELSE /\ pc' = "find_by_glob"
            /\ key' = "id"
            /\ UNCHANGED dll_idx
    /\ UNCHANGED <<env, registry, all_devices, xinput, xinput_dll, by_path, pos,
                   device_number, polled, warnings, error, result, gp_result, it>>

\* Variant of _parse_device_path: the seen test looks the raw device_path up
\* ("if device_path in self._raw") instead of its realpath.
ParseDevicePath_RawKey(device_path, char_path_override) ==
    LET parts == rsplit(device_path, "-")
    IN  IF Len(parts) < 2
        THEN /\ warnings' = Append(warnings,
                    [category |-> "RuntimeWarning", message |-> "skipped",
                     arg |-> device_path])
             /\ UNCHANGED registry
        ELSE LET device_type == parts[2]
                 rp == realpath(device_path)
             IN  IF device_path \in Range(_raw)
                 THEN UNCHANGED <<registry, warnings>>
                 ELSE /\ _raw' = Append(_raw, rp)
                      /\ IF device_type = <<"joystick">>
                         THEN /\ gamepads' = Append(gamepads,
                                     GamePad(device_path, char_path_override))
                              /\ UNCHANGED other_devices
                         ELSE /\ other_devices' = Append(other_devices,
                                     OtherDevice(device_path, char_path_override))
                              /\ UNCHANGED gamepads
                      /\ UNCHANGED warnings

\* Variant of _parse_device_path without step 2 (no "if realpath in
\* self._raw: return").
ParseDevicePath_NoSeenCheck(device_path, char_path_override) ==
    LET parts == rsplit(device_path, "-")
    IN  IF Len(parts) < 2
        THEN /\ warnings' = Append(warnings,
                    [category |-> "RuntimeWarning", message |-> "skipped",
                     arg |-> device_path])
             /\ UNCHANGED registry
        ELSE LET device_type == parts[2]
                 rp == realpath(device_path)
             IN  /\ _raw' = Append(_raw, rp)
                 /\ IF device_type = <<"joystick">>
                    THEN /\ gamepads' = Append(gamepads,
                                GamePad(device_path, char_path_override))
                         /\ UNCHANGED other_devices
                    ELSE /\ other_devices' = Append(other_devices,
                                OtherDevice(device_path, char_path_override))
                         /\ UNCHANGED gamepads
                 /\ UNCHANGED warnings

\* Variant of _parse_device_path that takes the last element of the split
\* (rsplit("-", 1)[-1]), so that a path without '-' raises nothing.
ParseDevicePath_LastElement(device_path, char_path_override) ==
    LET parts == rsplit(device_path, "-")
        device_type == parts[Len(parts)]
        rp == realpath(device_path)
    IN  IF rp \in Range(_raw)
        THEN UNCHANGED <<registry, warnings>>
        ELSE /\ _raw' = Append(_raw, rp)
             /\ IF device_type = <<"joystick">>
                THEN /\ gamepads' = Append(gamepads,
                            GamePad(device_path, char_path_override))
                     /\ UNCHANGED other_devices
                ELSE /\ other_devices' = Append(other_devices,
                            OtherDevice(device_path, char_path_override))
                     /\ UNCHANGED gamepads
             /\ UNCHANGED warnings

\* Variant of _parse_device_path in which the last identifier of a device
\* wins: a seen realpath replaces the record registered for it.
ParseDevicePath_LastWins(device_path, char_path_override) ==
    LET parts == rsplit(device_path, "-")
    IN  IF Len(parts) < 2
        THEN /\ warnings' = Append(warnings,
                    [category |-> "RuntimeWarning", message |-> "skipped",
                     arg |-> device_path])
             /\ UNCHANGED registry
        ELSE LET device_type == parts[2]
                 rp == realpath(device_path)
                 Others(l) == SelectSeq(l, LAMBDA d : realpath(d.device_path) # rp)
             IN  /\ _raw' = IF rp \in Range(_raw) THEN _raw ELSE Append(_raw, rp)
                 /\ IF device_type = <<"joystick">>
                    THEN /\ gamepads' = Append(Others(gamepads),
                                GamePad(device_path, char_path_override))
                         /\ other_devices' = Others(other_devices)
                    ELSE /\ other_devices' = Append(Others(other_devices),
                                OtherDevice(device_path, char_path_override))
                         /\ gamepads' = Others(gamepads)
                 /\ UNCHANGED warnings

\* Variant of _parse_device_path with steps 1 and 2 in the other order: the
\* realpath is looked up in and added to self._raw before the path is parsed.
ParseDevicePath_SeenFirst(device_path, char_path_override) ==
    LET parts == rsplit(device_path, "-")
        rp == realpath(device_path)
    IN  IF rp \in Range(_raw)
        THEN UNCHANGED <<registry, warnings>>
        ELSE /\ _raw' = Append(_raw, rp)
             /\ IF Len(parts) < 2
                THEN /\ warnings' = Append(warnings,
                            [category |-> "RuntimeWarning",
                             message |-> "skipped", arg |-> device_path])
                     /\ UNCHANGED <<gamepads, other_devices>>
                ELSE /\ IF parts[2] = <<"joystick">>
                        THEN /\ gamepads' = Append(gamepads,
                                    GamePad(device_path, char_path_override))
                             /\ UNCHANGED other_devices
                        ELSE /\ other_devices' = Append(other_devices,
                                    OtherDevice(device_path, char_path_override))
                             /\ UNCHANGED gamepads
                     /\ UNCHANGED warnings

\* _parse_device_path(device_path, char_path_override): the registry's part of
\* the step (self._raw, self.gamepads, self.other_devices) and the warning.
ParseDevicePath(device_path, char_path_override) ==
    LET parts == rsplit(device_path, "-")
    IN  IF Len(parts) < 2
        THEN \* parts[1] raises IndexError: warn and return
             /\ warnings' = Append(warnings,
                    [category |-> "RuntimeWarning", message |-> "skipped",
                     arg |-> device_path])
             /\ UNCHANGED registry
        ELSE LET device_type == parts[2]
                 rp == realpath(device_path)
             IN  IF rp \in Range(_raw)
                 THEN UNCHANGED <<registry, warnings>>
                 ELSE /\ _raw' = Append(_raw, rp)
                      /\ IF device_type = <<"joystick">>
                         THEN /\ gamepads' = Append(gamepads,
                                     GamePad(device_path, char_path_override))
                              /\ UNCHANGED other_devices
                         ELSE /\ other_devices' = Append(other_devices,
                                     OtherDevice(device_path, char_path_override))
                              /\ UNCHANGED gamepads
                      /\ UNCHANGED warnings

\* Variants of _update_all_devices: the second extend forgotten; the two
\* extends in the other order.
UpdateAllDevicesValue_GamepadsOnly == gamepads

UpdateAllDevicesValue_OtherFirst == other_devices \o gamepads

\* _update_all_devices: the list it builds.
UpdateAllDevicesValue == gamepads \o other_devices

\* _update_all_devices, the last step of _post_init.
UpdateAllDevices ==
    /\ pc = "update_all_devices"
    /\ all_devices' = UpdateAllDevicesValue
    /\ pc' = "constructed"
    /\ UNCHANGED <<env, registry, unixLocals, winState, warnings, error, result, gp_result, it>>

\* _find_by: by_path = glob.glob(...), whatever list the filesystem gives.
FindByGlob ==
    /\ pc = "find_by_glob"
    /\ \E l \in SeqsUpTo(DevicePaths, MaxGlob) : by_path' = l
    /\ pos' = 0
    /\ pc' = "find_by_loop"
    /\ UNCHANGED <<env, registry, all_devices, key, winState, warnings, error,
                   result, gp_result, it>>

\* Variant of the loop of _find_by that keeps the merged list up to date
\* (calls _update_all_devices after each _parse_device_path).
FindByLoop_Incremental ==
    /\ pc = "find_by_loop"
    /\ pos < Len(by_path)
    /\ ParseDevicePath(by_path[pos + 1], None)
    /\ all_devices' = gamepads' \o other_devices'
    /\ pos' = pos + 1
    /\ UNCHANGED <<env, pc, key, by_path, winState, error, result, gp_result, it>>

\* _find_by: one iteration of "for device_path in by_path".
FindByLoop ==
    /\ pc = "find_by_loop"
    /\ pos < Len(by_path)
    /\ ParseDevicePath(by_path[pos + 1], None)
    /\ pos' = pos + 1
    /\ UNCHANGED <<env, pc, all_devices, key, by_path, winState, error, result, gp_result, it>>

\* _find_by returns; _find_devices goes on with "path" after "id", and
\* _post_init with _update_all_devices after "path".
FindByReturn ==
    /\ pc = "find_by_loop"
    /\ pos = Len(by_path)
    /\ by_path' = <<>>
    /\ pos' = 0
    /\ IF key = "id"
       THEN key' = "path" /\ pc' = "find_by_glob"
       ELSE key' = None /\ pc' = "update_all_devices"
    /\ UNCHANGED <<env, registry, all_devices, winState, warnings, error, result, gp_result, it>>

\* Variant of _find_xinput without the "break": the loop goes on after a
\* successful load, so the last name that loads is kept.
FindXinputTry_NoBreak ==
    /\ pc = "find_xinput"
    /\ dll_idx <= Len(XINPUT_DLL_NAMES)
    /\ LET dll == XINPUT_DLL_NAMES[dll_idx]
       IN  IF dll \in loadable
           THEN /\ xinput' = "windll." \o dll
                /\ xinput_dll' = dll
           ELSE UNCHANGED <<xinput, xinput_dll>>
    /\ dll_idx' = dll_idx + 1
    /\ UNCHANGED <<env, pc, registry, all_devices, unixLocals, device_number,
                   polled, warnings, error, result, gp_result, it>>

\* _find_xinput: one iteration of "for dll in XINPUT_DLL_NAMES"; the first
\* name that loads is kept and ends the loop.
FindXinputTry ==
    /\ pc = "find_xinput"
    /\ dll_idx <= Len(XINPUT_DLL_NAMES)
    /\ LET dll == XINPUT_DLL_NAMES[dll_idx]
       IN  IF dll \in loadable
           THEN /\ xinput' = "windll." \o dll
                /\ xinput_dll' = dll
                /\ pc' = "find_devices_win"
                /\ UNCHANGED dll_idx
           ELSE \* OSError: pass
                /\ dll_idx' = dll_idx + 1
                /\ UNCHANGED <<xinput, xinput_dll, pc>>
    /\ UNCHANGED <<env, registry, all_devices, unixLocals, device_number, polled,
                   warnings, error, result, gp_result, it>>

\* _find_xinput: the else branch of the for loop, no name loaded.
FindXinputNone ==
    /\ pc = "find_xinput"
    /\ dll_idx > Len(XINPUT_DLL_NAMES)
    /\ warnings' = Append(warnings,
           [category |-> "RuntimeWarning", message |-> "no xinput driver",
            arg |-> <<>>])
    /\ pc' = "find_devices_win"
    /\ UNCHANGED <<env, registry, all_devices, unixLocals, winState, error, result, gp_result, it>>

\* Variant of _find_devices_win without the "if self.xinput:" test.
FindDevicesWin_NoGuard ==
    /\ pc = "find_devices_win"
    /\ pc' = "detect_gamepads"
    /\ device_number' = 0
    /\ UNCHANGED <<env, registry, all_devices, unixLocals, xinput, xinput_dll,
                   dll_idx, polled, warnings, error, result, gp_result, it>>

\* _find_devices_win, after _find_xinput: "if self.xinput:".
FindDevicesWin ==
    /\ pc = "find_devices_win"
    /\ IF xinput # None
       THEN pc' = "detect_gamepads" /\ device_number' = 0
       ELSE pc' = "update_all_devices" /\ UNCHANGED device_number
    /\ UNCHANGED <<env, registry, all_devices, unixLocals, xinput, xinput_dll,
                   dll_idx, polled, warnings, error, result, gp_result, it>>

\* Variant of the loop body: "break" instead of falling through to the next
\* slot when the device is not connected.
DetectGamepadsBody_BreakAtGap(res) ==
    IF res = XINPUT_ERROR_SUCCESS
    THEN /\ gamepads' = Append(gamepads,
                GamePad(SynthesizedPath(device_number), None))
         /\ device_number' = device_number + 1
         /\ UNCHANGED <<pc, error>>
    ELSE IF res # XINPUT_ERROR_DEVICE_NOT_CONNECTED
         THEN /\ error' = <<"RuntimeError", res, device_number>>
              /\ pc' = "raised"
              /\ UNCHANGED <<gamepads, device_number>>
         ELSE /\ device_number' = NumSlots
              /\ UNCHANGED <<gamepads, pc, error>>

\* Variant of the loop body: an unknown status code is skipped like "not
\* connected" instead of raised.
DetectGamepadsBody_SkipUnknown(res) ==
    IF res = XINPUT_ERROR_SUCCESS
    THEN /\ gamepads' = Append(gamepads,
                GamePad(SynthesizedPath(device_number), None))
         /\ device_number' = device_number + 1
         /\ UNCHANGED <<pc, error>>
    ELSE /\ device_number' = device_number + 1
         /\ UNCHANGED <<gamepads, pc, error>>

\* Variant of the loop body: every status code but Success is raised
\* ("if res != XINPUT_ERROR_SUCCESS: raise").
DetectGamepadsBody_RaiseOnGap(res) ==
    IF res = XINPUT_ERROR_SUCCESS
    THEN /\ gamepads' = Append(gamepads,
                GamePad(SynthesizedPath(device_number), None))
         /\ device_number' = device_number + 1
         /\ UNCHANGED <<pc, error>>
    ELSE /\ error' = <<"RuntimeError", res, device_number>>
         /\ pc' = "raised"
         /\ UNCHANGED <<gamepads, device_number>>

\* _detect_gamepads: the body of the loop for the status code res the poll of
\* slot device_number returned.
DetectGamepadsBody(res) ==
    IF res = XINPUT_ERROR_SUCCESS
    THEN /\ gamepads' = Append(gamepads,
                GamePad(SynthesizedPath(device_number), None))
         /\ device_number' = device_number + 1
         /\ UNCHANGED <<pc, error>>
    ELSE IF res # XINPUT_ERROR_DEVICE_NOT_CONNECTED
         THEN /\ error' = <<"RuntimeError", res, device_number>>
              /\ pc' = "raised"
              /\ UNCHANGED <<gamepads, device_number>>
         ELSE /\ device_number' = device_number + 1
              /\ UNCHANGED <<gamepads, pc, error>>

\* _detect_gamepads: one iteration of "for device_number in range(4)".
DetectGamepadsPoll ==
    /\ pc = "detect_gamepads"
    /\ device_number < NumSlots
    /\ \E res \in PollCodes :
           /\ polled' = Append(polled, <<device_number, res>>)
           /\ DetectGamepadsBody(res)
    /\ UNCHANGED <<env, _raw, other_devices, all_devices, unixLocals, xinput,
                   xinput_dll, dll_idx, warnings, result, gp_result, it>>

\* _detect_gamepads returns after the fourth slot.
DetectGamepadsReturn ==
    /\ pc = "detect_gamepads"
    /\ device_number = NumSlots
    /\ pc' = "update_all_devices"
    /\ UNCHANGED <<env, registry, all_devices, unixLocals, winState, warnings,
                   error, result, gp_result, it>>

\* Variant of __getitem__: the index one past the end is taken for the last
\* element (an off-by-one bound).
GetItemOutcome_OffByOne(index) ==
    LET n == Len(all_devices)
        i == IF index < 0 THEN index + n ELSE index
    IN  IF i < 0 \/ i > n \/ n = 0
        THEN <<"IndexError", index>>
        ELSE <<"return", index, all_devices[IF i = n THEN n ELSE i + 1]>>

\* __getitem__(index): list indexing, negative indices count from the end.
GetItemOutcome(index) ==
    LET n == Len(all_devices)
        i == IF index < 0 THEN index + n ELSE index
    IN  IF i < 0 \/ i >= n
        THEN <<"IndexError", index>>
        ELSE <<"return", index, all_devices[i + 1]>>

\* A caller indexes the constructed manager.
GetItem ==
    /\ pc = "constructed"
    /\ \E index \in -(Len(all_devices) + 1)..(Len(all_devices) + 1) :
           result' = GetItemOutcome(index)
    /\ UNCHANGED <<env, pc, registry, all_devices, unixLocals, winState, warnings,
                   error, gp_result, it>>

\* Variant of get_gamepad that takes the first record of the merged list
\* (devices[0]) instead of devices.gamepads[0].
GetGamepadOutcome_FromAllDevices ==
    IF Len(all_devices) = 0
    THEN <<"UnpluggedError">>
    ELSE <<"read", all_devices[1]>>

\* utils.get_gamepad: devices.gamepads[0], its IndexError turned into
\* UnpluggedError; otherwise the read of that record.
GetGamepadOutcome ==
    IF Len(gamepads) = 0
    THEN <<"UnpluggedError">>
    ELSE <<"read", gamepads[1]>>

\* A caller asks for a gamepad event; the module-level manager exists only if
\* its construction returned.
GetGamepad ==
    /\ pc = "constructed"
    /\ gp_result' = GetGamepadOutcome
    /\ UNCHANGED <<env, pc, registry, all_devices, unixLocals, winState, warnings,
                   error, result, it>>

\* Variant of __iter__ that hands out one shared cursor instead of a new
\* iterator: a second enumeration goes on where the first one stopped.
IterValue_SharedCursor ==
    [active |-> TRUE, pos |-> IF it.done THEN 0 ELSE it.pos, yielded |-> <<>>,
     done |-> FALSE,
     restarted |-> it.active /\ ~it.done /\ it.pos >= 1]

\* __iter__: iter(self.all_devices), a new list iterator at index 0.
\* restarted notes that the iterator before it was dropped part-way.
IterValue ==
    [active |-> TRUE, pos |-> 0, yielded |-> <<>>, done |-> FALSE,
     restarted |-> it.active /\ ~it.done /\ it.pos >= 1]

\* A caller starts an enumeration, whatever became of the one before.
Iter ==
    /\ pc = "constructed"
    /\ it' = IterValue
    /\ UNCHANGED <<env, pc, registry, all_devices, unixLocals, winState, warnings,
                   error, result, gp_result>>

\* next() on the list iterator: the record at its index, or StopIteration at
\* the end of the list.
IterNext ==
    /\ pc = "constructed"
    /\ it.active /\ ~it.done
    /\ IF it.pos < Len(all_devices)
       THEN it' = [it EXCEPT !.yielded = Append(@, all_devices[it.pos + 1]),
                             !.pos = @ + 1]
       ELSE it' = [it EXCEPT !.done = TRUE]
    /\ UNCHANGED <<env, pc, registry, all_devices, unixLocals, winState, warnings,
                   error, result, gp_result>>

\* The steps of __init__ up to its return or its exception.
Construct ==
    \/ PostInit
    \/ FindByGlob
    \/ FindByLoop
    \/ FindByReturn
    \/ FindXinputTry
    \/ FindXinputNone
    \/ FindDevicesWin
    \/ DetectGamepadsPoll
    \/ DetectGamepadsReturn
    \/ UpdateAllDevices

Next ==
    \/ PostInit
    \/ FindByGlob
    \/ FindByLoop
    \/ FindByReturn
    \/ FindXinputTry
    \/ FindXinputNone
    \/ FindDevicesWin
    \/ DetectGamepadsPoll
    \/ DetectGamepadsReturn
    \/ UpdateAllDevices
    \/ GetItem
    \/ GetGamepad

Spec == Init /\ [][Next]_vars

\* Construction followed by a caller that indexes and enumerates the manager.
EnumNext ==
    \/ Construct
    \/ GetItem
    \/ Iter
    \/ IterNext

EnumSpec == Init /\ [][EnumNext]_vars

\* Construction alone.  __init__ is synchronous, single-threaded code whose
\* external calls (glob.glob, getattr on ctypes.windll, XInputGetState) return:
\* a step that can be taken is taken.
LiveSpec == Init /\ [][Construct]_vars /\ WF_vars(Construct)

\* ---------------------------------------------------------------- claims
\* The records of both class lists, and the canonical form of a record.
Devices == gamepads \o other_devices
Canonical(d) == realpath(d.device_path)

\* _find_by is about to hand next_path to _parse_device_path.
Registering == pc = "find_by_loop" /\ pos < Len(by_path)
next_path == by_path[pos + 1]

\* The path the last iteration of the loop handed to _parse_device_path.
Registered == pc = "find_by_loop" /\ pos >= 1
last_path == by_path[pos]

HasDash(p) == "-" \in Range(p)

\* The substring after the last '-' is exactly "joystick".
JoystickSuffix(p) ==
    Len(p) >= 2 /\ p[Len(p)] = "joystick" /\ p[Len(p) - 1] = "-"

\* C1: registering an identifier whose realpath is already in the seen-set
\* leaves the seen-set, the Gamepad list and the Other list unchanged, whatever
\* the raw identifier and its suffix are.
C1_RegistrationIdempotent ==
    [][(Registering /\ realpath(next_path) \in Range(_raw))
          => UNCHANGED <<_raw, gamepads, other_devices>>]_vars

\* C1 witness: an identifier of the Other class was dropped because a gamepad
\* registered under another identifier has the same realpath.
C1_Witness ==
    /\ Registered
    /\ HasDash(last_path) /\ ~JoystickSuffix(last_path)
    /\ other_devices = <<>>
    /\ \E i \in 1..Len(gamepads) :
          /\ gamepads[i].device_path # last_path
          /\ Canonical(gamepads[i]) = realpath(last_path)

\* C2: in every reachable state, on either backend, no two records of the
\* Gamepad list and the Other list together have the same canonical form.
C2_CanonicalUnique ==
    \A i, j \in 1..Len(Devices) :
        i # j => Canonical(Devices[i]) # Canonical(Devices[j])

\* C2 witness: the scan offered a second identifier of the device node, it
\* was dropped, and both class lists hold a record.
C2_Witness ==
    /\ Registered
    /\ HasDash(last_path) /\ realpath(last_path) = EventNode
    /\ \A i \in 1..Len(Devices) : Devices[i].device_path # last_path
    /\ Len(gamepads) >= 1 /\ Len(other_devices) >= 1

\* C3 as stated: the merged list is as long as the two class lists together
\* in every reachable state, the states during discovery included.
C3_LengthAlways ==
    Len(all_devices) = Len(gamepads) + Len(other_devices)

\* C3 as amended: the equality holds once construction has returned.
C3_LengthAfterConstruction ==
    pc = "constructed" =>
        Len(all_devices) = Len(gamepads) + Len(other_devices)

\* C3 witness: a constructed manager with records of both classes.
C3_Witness ==
    /\ pc = "constructed"
    /\ Len(gamepads) >= 1 /\ Len(other_devices) >= 1
    /\ Len(all_devices) >= 3

\* Position of a realpath in the seen list; the list is appended to in
\* registration order.
SeenAt(rp) == CHOOSE k \in 1..Len(_raw) : _raw[k] = rp

FirstRegistrationOrder(l) ==
    \A i, j \in 1..Len(l) :
        i < j => /\ Canonical(l[i]) \in Range(_raw)
                 /\ Canonical(l[j]) \in Range(_raw)
                 /\ SeenAt(Canonical(l[i])) < SeenAt(Canonical(l[j]))

\* C4: when construction has returned, all_devices is the Gamepad list
\* followed by the Other list, each in first-registration order.
C4_MergedIsGamepadsThenOthers ==
    pc = "constructed" =>
        /\ Len(all_devices) = Len(gamepads) + Len(other_devices)
        /\ \A i \in 1..Len(all_devices) :
              IF i <= Len(gamepads)
              THEN all_devices[i] = gamepads[i]
              ELSE all_devices[i] = other_devices[i - Len(gamepads)]
        /\ ~WIN => /\ FirstRegistrationOrder(gamepads)
                   /\ FirstRegistrationOrder(other_devices)

\* C4 witness: a constructed manager with two gamepads and an Other record,
\* the Other record registered before the second gamepad.
C4_Witness ==
    /\ pc = "constructed"
    /\ Len(gamepads) = 2 /\ Len(other_devices) >= 1
    /\ SeenAt(Canonical(other_devices[1])) < SeenAt(Canonical(gamepads[2]))

\* C5: on a constructed manager with a merged list of length n, index n gives
\* an index error and every index 0..n-1 gives that record of the merged
\* list; no call changes the manager.
C5_IndexResult ==
    result # NoCall =>
        LET index == result[2]
            n == Len(all_devices)
        IN  /\ index = n => result = <<"IndexError", index>>
            /\ (0 <= index /\ index <= n - 1) =>
                   result = <<"return", index, all_devices[index + 1]>>

C5_IndexedAccess ==
    /\ []C5_IndexResult
    /\ [][pc = "constructed" =>
             UNCHANGED <<pc, _raw, gamepads, other_devices, all_devices,
                         xinput, xinput_dll, warnings, error>>]_vars

\* C5 witness: the call at index n of a merged list of two or more records
\* has signalled the index error.
C5_Witness ==
    /\ pc = "constructed"
    /\ Len(all_devices) >= 2
    /\ result = <<"IndexError", Len(all_devices)>>

\* C6: an identifier without '-' registers nothing: both class lists (and the
\* seen-set) stay as they are, one warning naming the identifier is emitted,
\* and the scan goes on with the next identifier.
C6_UnparsableSkipped ==
    [][(Registering /\ ~HasDash(next_path)) =>
          /\ UNCHANGED <<_raw, gamepads, other_devices>>
          /\ warnings' = Append(warnings,
                 [category |-> "RuntimeWarning", message |-> "skipped",
                  arg |-> next_path])
          /\ pc' = "find_by_loop" /\ by_path' = by_path /\ pos' = pos + 1
          /\ error' = NoError]_vars

\* C6 witness: an identifier without '-' was skipped with a warning and the
\* identifier after it in the same scan was registered.
C6_Witness ==
    /\ Registered /\ pos >= 2
    /\ ~HasDash(by_path[pos - 1])
    /\ Len(warnings) = 1
    /\ _raw = <<realpath(last_path)>>
    /\ Len(Devices) = 1 /\ Devices[1].device_path = last_path

\* C7: an identifier with a '-' whose realpath is new appends one record to
\* one class list: the Gamepad list when the text after the last '-' is
\* "joystick", the Other list for any other suffix (the empty one too); the
\* other class list is unchanged.
C7_ClassBySuffix ==
    [][(Registering /\ HasDash(next_path)
            /\ realpath(next_path) \notin Range(_raw)) =>
          IF JoystickSuffix(next_path)
          THEN /\ gamepads' = Append(gamepads, GamePad(next_path, None))
               /\ other_devices' = other_devices
          ELSE /\ other_devices' = Append(other_devices,
                      OtherDevice(next_path, None))
               /\ gamepads' = gamepads]_vars

\* C7 witness: the identifier with the empty suffix is in the Other list next
\* to a gamepad and a second Other record.
C7_Witness ==
    /\ ~WIN
    /\ Len(gamepads) = 1 /\ JoystickSuffix(gamepads[1].device_path)
    /\ Len(other_devices) = 2
    /\ \E i \in 1..2 : other_devices[i].device_path = ById_trailing

\* The slots the polls so far returned Success for, in poll order.
SuccessSlots ==
    LET ok == SelectSeq(polled, LAMBDA c : c[2] = XINPUT_ERROR_SUCCESS)
    IN  [i \in 1..Len(ok) |-> ok[i][1]]

\* C8: Windows with a loaded library and every slot answering Success or
\* DeviceNotConnected: after discovery the Gamepad list holds one record per
\* Success slot, in ascending slot order, each with the identifier synthesized
\* for its slot, and the Other list is empty.
C8_WindowsGamepads ==
    (WIN /\ xinput # None /\ pc \in {"update_all_devices", "constructed"}) =>
        /\ Len(polled) = NumSlots
        /\ \A i \in 1..NumSlots :
              /\ polled[i][1] = i - 1
              /\ polled[i][2] \in {XINPUT_ERROR_SUCCESS,
                                   XINPUT_ERROR_DEVICE_NOT_CONNECTED}
        /\ gamepads = [i \in 1..Len(SuccessSlots) |->
                          GamePad(SynthesizedPath(SuccessSlots[i]), None)]
        /\ \A i, j \in 1..Len(SuccessSlots) :
              i < j => SuccessSlots[i] < SuccessSlots[j]
        /\ other_devices = <<>>

\* C8 witness: Success on slots 0 and 2, DeviceNotConnected on 1 and 3, and
\* the Gamepad list is [slot 0, slot 2].
C8_Witness ==
    /\ pc = "constructed"
    /\ polled = << <<0, XINPUT_ERROR_SUCCESS>>,
                   <<1, XINPUT_ERROR_DEVICE_NOT_CONNECTED>>,
                   <<2, XINPUT_ERROR_SUCCESS>>,
                   <<3, XINPUT_ERROR_DEVICE_NOT_CONNECTED>> >>
    /\ gamepads = <<GamePad(SynthesizedPath(0), None),
                    GamePad(SynthesizedPath(2), None)>>

Recognised == {XINPUT_ERROR_SUCCESS, XINPUT_ERROR_DEVICE_NOT_CONNECTED}

\* C9: a poll of slot k that returns a code other than Success and
\* DeviceNotConnected raises an error carrying the code and k; no slot above
\* k is polled, nothing catches the error, and the merged list is never built.
C9_UnknownCodeStep ==
    /\ (pc = "detect_gamepads" /\ polled' # polled
           /\ polled'[Len(polled')][2] \notin Recognised) =>
          /\ pc' = "raised"
          /\ error' = <<"RuntimeError", polled'[Len(polled')][2], device_number>>
          /\ polled'[Len(polled')][1] = device_number
    /\ pc = "raised" => UNCHANGED vars

C9_RaisedState ==
    pc = "raised" =>
        /\ Len(polled) >= 1
        /\ error = <<"RuntimeError", polled[Len(polled)][2],
                     polled[Len(polled)][1]>>
        /\ polled[Len(polled)][2] \notin Recognised
        /\ \A i \in 1..Len(polled) : polled[i][1] = i - 1
        /\ all_devices = <<>>

C9_UnknownCodeFatal ==
    /\ []C9_RaisedState
    /\ [][C9_UnknownCodeStep]_vars

\* C9 witness: code 999 on slot 1 after Success on slot 0.
C9_Witness ==
    /\ pc = "raised"
    /\ error = <<"RuntimeError", 999, 1>>
    /\ polled = << <<0, XINPUT_ERROR_SUCCESS>>, <<1, 999>> >>
    /\ Len(gamepads) = 1

NoDriverWarning ==
    [category |-> "RuntimeWarning", message |-> "no xinput driver", arg |-> <<>>]

\* C10: Windows with no loadable library name: no slot is ever polled, a
\* warning is emitted, and construction completes with an empty Gamepad list,
\* an empty merged list and neither handle nor library name recorded.
C10_NoLibrary ==
    (WIN /\ loadable = {}) =>
        /\ polled = <<>>
        /\ pc \notin {"detect_gamepads", "raised"}
        /\ error = NoError
        /\ gamepads = <<>> /\ all_devices = <<>>
        /\ xinput = None /\ xinput_dll = None
        /\ pc \in {"find_devices_win", "update_all_devices", "constructed"}
              => warnings = <<NoDriverWarning>>
        /\ pc \in {"post_init", "find_xinput"} => warnings = <<>>

\* C10 witness: construction has returned on Windows with no loadable name.
C10_Witness ==
    /\ WIN /\ loadable = {}
    /\ pc = "constructed"
    /\ warnings = <<NoDriverWarning>>

\* Every poll so far returned Success or DeviceNotConnected.
OnlyRecognisedPolled == \A i \in 1..Len(polled) : polled[i][2] \in Recognised

\* The polls so far took the slots 0, 1, ... in ascending order, each once.
PolledAscendingOnce ==
    /\ Len(polled) <= NumSlots
    /\ \A i \in 1..Len(polled) : polled[i][1] = i - 1

\* C11: construction always terminates and fails only on the Windows polling
\* path with an unrecognised status code: whatever the glob results (unparsable
\* and duplicate identifiers included) and the loadable names, with every poll
\* answering Success or DeviceNotConnected it reaches the constructed state,
\* each of the four slots polled at most once, in ascending order.
C11_ConstructionTerminates ==
    /\ <>(pc = "constructed" \/ pc = "raised")
    /\ [](pc = "raised" => (WIN /\ ~OnlyRecognisedPolled))
    /\ [](OnlyRecognisedPolled => pc # "raised")
    /\ []PolledAscendingOnce

\* C11 witness: Unix construction has returned after a scan that held an
\* unparsable identifier and registered two devices.
C11_Witness ==
    /\ ~WIN
    /\ pc = "constructed"
    /\ Len(warnings) >= 1
    /\ Len(_raw) = 2

\* C12: get_gamepad on a manager with an empty Gamepad list signals
\* UnpluggedError, not an index error, whether or not the Other list is empty;
\* with a non-empty Gamepad list it reads from the first Gamepad record.
C12_GetGamepad ==
    gp_result # NoCall =>
        IF Len(gamepads) = 0
        THEN gp_result = <<"UnpluggedError">>
        ELSE gp_result = <<"read", gamepads[1]>>

\* C12 witness: UnpluggedError on a manager that holds Other records only.
C12_Witness ==
    /\ gp_result = <<"UnpluggedError">>
    /\ gamepads = <<>>
    /\ Len(other_devices) >= 1
    /\ Len(all_devices) >= 1

\* C13 as stated: the seen-set is updated before the identifier is
\* classified, so every registration of an identifier with a new realpath,
\* an unparsable one included, adds the realpath to the seen-set.
C13_SeenBeforeClassify ==
    [][(Registering /\ realpath(next_path) \notin Range(_raw))
          => realpath(next_path) \in Range(_raw')]_vars

\* C13 as amended: the identifier is parsed before the seen-set is looked at.
\* An identifier without '-' leaves the seen-set and both lists as they are;
\* an identifier with '-' and a new realpath adds the realpath to the seen-set
\* and one record to a class list in the same call; one with a seen realpath
\* changes nothing.
C13_ClassifyBeforeSeen ==
    [][Registering =>
          IF ~HasDash(next_path)
          THEN UNCHANGED <<_raw, gamepads, other_devices>>
          ELSE IF realpath(next_path) \in Range(_raw)
               THEN UNCHANGED <<_raw, gamepads, other_devices>>
               ELSE /\ _raw' = Append(_raw, realpath(next_path))
                    /\ Len(gamepads') + Len(other_devices')
                          = Len(gamepads) + Len(other_devices) + 1]_vars

\* C13 witness: the first scan held an identifier without '-' and then one
\* with '-', both resolving to the device node; the second one is registered.
C13_Witness ==
    /\ Registered /\ key = "id" /\ pos = 2
    /\ ~HasDash(by_path[1]) /\ realpath(by_path[1]) = EventNode
    /\ HasDash(last_path) /\ realpath(last_path) = EventNode
    /\ _raw = <<EventNode>>
    /\ Len(Devices) = 1 /\ Devices[1].device_path = last_path
    /\ Len(warnings) = 1

\* The records of l keep their places in l' (l' is l, possibly with records
\* added at its end).
KeepsRecords(l, m) ==
    /\ Len(m) >= Len(l)
    /\ \A i \in 1..Len(l) : m[i] = l[i]

C14_Step ==
    \* the first scan is the by-id scan
    /\ (pc = "post_init" /\ ~WIN) => key' = "id"
    \* the by-path scan starts when the by-id list is used up, and the by-id
    \* scan never starts again
    /\ (key = "id" /\ key' # "id") =>
          /\ pc = "find_by_loop" /\ pos = Len(by_path)
          /\ key' = "path" /\ pc' = "find_by_glob"
    /\ key = "path" => key' # "id"
    \* a record stays where it was registered
    /\ KeepsRecords(gamepads, gamepads')
    /\ KeepsRecords(other_devices, other_devices')
    \* a by-path identifier of a device that has a record is dropped
    /\ (Registering /\ key = "path" /\ realpath(next_path) \in Range(_raw)) =>
          UNCHANGED <<_raw, gamepads, other_devices>>

\* C14: Unix discovery scans by-id completely before by-path; within a class
\* list the records stand in the order of first registration; for a device
\* reachable from both namespaces the one record keeps the by-id identifier
\* and the class of its suffix, and the by-path identifier is dropped.
C14_ByIdFirst ==
    /\ [][C14_Step]_vars
    /\ [](~WIN => /\ FirstRegistrationOrder(gamepads)
                  /\ FirstRegistrationOrder(other_devices))

\* C14 witness: the first identifier of the by-path scan has an Other suffix
\* and the realpath of a gamepad the by-id scan registered; it was dropped.
C14_Witness ==
    /\ Registered /\ key = "path" /\ pos = 1
    /\ HasDash(last_path) /\ ~JoystickSuffix(last_path)
    /\ other_devices = <<>>
    /\ Len(gamepads) = 2
    /\ Canonical(gamepads[2]) = realpath(last_path)
    /\ gamepads[2].device_path # last_path

\* Position in XINPUT_DLL_NAMES of the first name that can be loaded, 0 if
\* none can.
FirstLoadable ==
    LET ok == {i \in 1..Len(XINPUT_DLL_NAMES) : XINPUT_DLL_NAMES[i] \in loadable}
    IN  IF ok = {} THEN 0 ELSE CHOOSE i \in ok : \A j \in ok : i <= j

C15_State ==
    /\ (xinput # None \/ xinput_dll # None) =>
          /\ FirstLoadable >= 1
          /\ xinput_dll = XINPUT_DLL_NAMES[FirstLoadable]
          /\ xinput = "windll." \o XINPUT_DLL_NAMES[FirstLoadable]
          /\ dll_idx = FirstLoadable
    /\ (pc = "detect_gamepads" \/ polled # <<>>) => xinput # None

C15_Step ==
    \* the names are tried one after the other, from the first one on
    /\ dll_idx' # dll_idx =>
          \/ pc = "post_init" /\ dll_idx' = 1
          \/ /\ dll_idx' = dll_idx + 1
             /\ XINPUT_DLL_NAMES[dll_idx] \notin loadable
    \* nothing is tried or recorded after a load
    /\ xinput # None => UNCHANGED <<xinput, xinput_dll, dll_idx>>
    \* polling starts from the state with a library loaded
    /\ (pc' = "detect_gamepads" /\ pc # "detect_gamepads") =>
          (pc = "find_devices_win" /\ xinput # None)

\* C15: the library names are tried in their fixed order and the first one
\* that loads ends the loop: handle and name recorded are those of the first
\* loadable name, no later name is tried, and polling is entered only with a
\* library loaded.
C15_FirstLoadWins ==
    /\ []C15_State
    /\ [][C15_Step]_vars

\* C15 witness: the first name does not load, the second and the third do;
\* construction has returned with the second name recorded.
C15_Witness ==
    /\ pc = "constructed"
    /\ loadable = {XINPUT_DLL_NAMES[2], XINPUT_DLL_NAMES[3]}
    /\ xinput_dll = XINPUT_DLL_NAMES[2]
    /\ dll_idx = 2
    /\ Len(polled) = NumSlots

C16_Step ==
    \* the merged list is written by the one step that ends construction
    /\ (all_devices' # all_devices \/ (pc' = "constructed" /\ pc # "constructed")) =>
          /\ pc = "update_all_devices" /\ pc' = "constructed"
          /\ all_devices' = gamepads \o other_devices
    \* and that step is taken once: construction is over after it
    /\ pc = "constructed" => (pc' = "constructed" /\ all_devices' = all_devices)
    /\ pc = "raised" => pc' = "raised"

\* C16: the merged list is rebuilt once per construction, after discovery:
\* all_devices is empty in every state during discovery, no registration and
\* no poll writes it, and a construction that aborts on the fatal poll error
\* never rebuilds it, whatever Gamepad records were appended before.
C16_RebuiltOnce ==
    /\ [](pc # "constructed" => all_devices = <<>>)
    /\ [][C16_Step]_vars

\* C16 witness: construction aborted on slot 2 after Success on slots 0 and 1;
\* the Gamepad list holds two records and the merged list none.
C16_Witness ==
    /\ pc = "raised"
    /\ Len(polled) = 3
    /\ Len(gamepads) = 2
    /\ all_devices = <<>>

\* C17: a construction runs one backend, chosen from the platform: on Windows
\* there is no filesystem scan and no path registration (the seen-set and the
\* Other list stay empty, the Gamepad list has at most four records); on any
\* other platform no library is loaded and no slot polled (handle and library
\* name stay unset).
C17_OneBackend ==
    /\ WIN =>
          /\ pc \notin {"find_by_glob", "find_by_loop"}
          /\ key = None /\ by_path = <<>> /\ pos = 0
          /\ _raw = <<>> /\ other_devices = <<>>
          /\ Len(gamepads) <= NumSlots
    /\ ~WIN =>
          /\ pc \notin {"find_xinput", "find_devices_win", "detect_gamepads",
                        "raised"}
          /\ dll_idx = 0 /\ polled = <<>>
          /\ xinput = None /\ xinput_dll = None

\* C17 witness: Windows construction has returned with a gamepad on each of
\* the four slots.
C17_Witness ==
    /\ WIN
    /\ pc = "constructed"
    /\ Len(gamepads) = NumSlots
    /\ Len(all_devices) = NumSlots

\* What the current enumeration has yielded: the records of the merged list
\* from index 0 up to its position, all of them once it has ended.
C18_Enumeration ==
    it.active =>
        /\ it.pos <= Len(all_devices)
        /\ it.yielded = SubSeq(all_devices, 1, it.pos)
        /\ it.done => it.yielded = all_devices

\* C18: after construction has returned the device collection is fixed: no
\* indexed read, failing or not, and no enumeration changes the Gamepad list,
\* the Other list, the merged list or the seen-set, and every enumeration, one
\* started after another was dropped part-way included, yields the records of
\* the merged list from index 0, in order.
C18_FixedAfterConstruction ==
    /\ []C18_Enumeration
    /\ [][pc = "constructed" =>
             UNCHANGED <<pc, _raw, gamepads, other_devices, all_devices>>]_vars

\* C18 witness: after an index error, an enumeration that was started when
\* another one had been dropped part-way has run to its end over three
\* records.
C18_Witness ==
    /\ it.active /\ it.restarted /\ it.done
    /\ Len(it.yielded) = 3
    /\ Len(result) = 2 /\ result[1] = "IndexError"

C19_State ==
    ~WIN =>
        /\ Len(_raw) = Len(gamepads) + Len(other_devices)
        /\ \A i, j \in 1..Len(_raw) : i # j => _raw[i] # _raw[j]

C19_Step ==
    Registering =>
        /\ (_raw' # _raw) <=>
              (Len(gamepads') + Len(other_devices')
                  = Len(gamepads) + Len(other_devices) + 1)
        /\ _raw' # _raw => _raw' = Append(_raw, realpath(next_path))
        /\ _raw' = _raw => UNCHANGED <<gamepads, other_devices>>

\* C19: on the Unix path, after every call of _parse_device_path the seen-set
\* has no repeated entry and as many entries as the two class lists have
\* records: a realpath enters the seen-set exactly in the calls that append
\* one record.
C19_SeenMatchesRecords ==
    /\ []C19_State
    /\ [][C19_Step]_vars

\* C19 witness: a scan of the by-path namespace has handled an identifier
\* without '-'; a warning was emitted and the seen-set and the class lists,
\* one record each, agree in size.
C19_Witness ==
    /\ Registered /\ key = "path"
    /\ ~HasDash(last_path)
    /\ Len(warnings) >= 1
    /\ Len(_raw) = 2
    /\ Len(gamepads) = 1 /\ Len(other_devices) = 1

====
